---- MODULE Spec2Model ----
(***************************************************************************)
(* Model of refiners' image-prompt adapters                                *)
(* (src/refiners/foundationals/latent_diffusion/image_prompt.py):          *)
(* CrossAttentionAdapter and IPAdapter performing graph surgery on a tree  *)
(* of fl.Chain nodes, the Lora-pruning search for the target's linear      *)
(* maps, the context slicing of the text and image branches, and the       *)
(* routing of a weight bundle to the per-site adapters.                    *)
(*                                                                         *)
(* The fluxion primitives the file calls (Chain.append/pop/replace/walk,   *)
(* Adapter.inject/eject/setup_adapter, Slicing) are not part of the file;  *)
(* they are modelled from the specification's description of them.         *)
(***************************************************************************)
EXTENDS Naturals, Integers, Sequences, FiniteSets, TLC

VARIABLES
    children,       \* [Nodes -> Seq(Nodes)]: the ordered child list of every node
    parent,         \* [Nodes -> Nodes \cup {None}]: a node's parent back-reference
    target,         \* [AdapterIds -> Nodes \cup {None}]: Adapter._target (None: not built)
    sub_adapters,   \* IPAdapter.sub_adapters, a sequence of adapter ids
    last,           \* the last call made: [op, who, arg, ok, log]
    pre,            \* the child lists as they were when the last call began
    search,         \* the outcome of a call of _target_linears on the tree W
    text_sequence_length,   \* CrossAttentionAdapter.text_sequence_length
    image_sequence_length,  \* CrossAttentionAdapter.image_sequence_length
    context,        \* the context fed to the adapter: a sequence of positions
    distributed,    \* the output of the adapter's Distribute: [done, query, keys, values]
    picked,         \* what select_qkv returned in each branch of the Sum
    weights,        \* the weight bundle given to IPAdapter.__init__: a set of keys
    loaded          \* the outcome of the loading part of IPAdapter.__init__

gvars == <<children, parent, target, sub_adapters, last, pre>>
wvars == <<search>>
svars == <<text_sequence_length, image_sequence_length, context, distributed, picked>>
lvars == <<weights, loaded>>
vars == <<gvars, wvars, svars, lvars>>

(***************************************************************************)
(* Bounds                                                                  *)
(***************************************************************************)
\* Splice points never hold more than this many children (caps repeated
\* failing inject() calls, each of which appends one more child).
MaxChildren == 2

\* Number of nodes below the root of the trees the search is run on.
MaxTreeNodes == 4

\* Largest text and image sequence lengths tried.
MaxText == 6
MaxImage == 4

\* Number of Per-Site Adapters of the IPAdapter the weight bundles are loaded into.
LoadAdapters == 3

(***************************************************************************)
(* The arena of graph nodes.  A node is <<owner kind, owner index, part>>. *)
(***************************************************************************)
None == <<"none", 0, "none">>

Sites == {1, 2}                       \* cross-attention sites X1, X2 of the UNet
Standalone == {<<"A", 1>>}            \* an adapter built by hand over site X1
SubIds == {<<"P", i>> : i \in Sites}  \* adapters built by IPAdapter.__init__
CAIds == Standalone \cup SubIds
IPId == <<"IP", 0>>
AdapterIds == CAIds \cup {IPId}

Node(o, part) == <<o[1], o[2], part>>

H == <<"H", 0, "self">>      \* a container holding the UNet
U == <<"U", 0, "self">>      \* the UNet, target of IPAdapter
X(i) == <<"X", i>>           \* owner of the i-th cross-attention site
S == <<"S", 0>>              \* owner of the self-attention site

AttentionParts == {"self", "dist", "q", "k", "v", "sdpa", "out",
                   "sum", "lora", "down", "up", "extra"}
AdapterParts == {"self", "dist", "ipq",
                 "park", "kt", "kts", "ipk", "ki", "kis", "wk",
                 "parv", "vt", "vts", "ipv", "vi", "vis", "wv",
                 "sum", "st", "stl", "sts", "si", "sil", "sis", "sisc",
                 "ipo"}

\* The nodes of the trees the search is tried on: a root attention node and,
\* for every position 1..MaxTreeNodes, one node of each class.
WalkKinds == {"Chain", "Lora", "Linear", "Other"}
WRoot == <<"W", 0, "Attention">>
WNode(i, k) == <<"W", i, k>>
WNodes == {WRoot} \cup {WNode(i, k) : i \in 1..MaxTreeNodes, k \in WalkKinds}

Nodes == {H, U, Node(IPId, "self")} \cup WNodes
         \cup {Node(o, p) : o \in {X(i) : i \in Sites} \cup {S}, p \in AttentionParts}
         \cup {Node(a, p) : a \in CAIds, p \in AdapterParts}

\* The concrete class of a node.
Kind(n) ==
    CASE n[1] \in {"H", "U"} -> "Chain"
      [] n[1] = "IP" -> "IPAdapter"
      [] n[1] \in {"X", "S"} ->
            (CASE n[3] = "self" -> (IF n[1] = "S" THEN "SelfAttention" ELSE "Attention")
               [] n[3] \in {"dist", "sum"} -> "Chain"
               [] n[3] = "lora" -> "Lora"
               [] n[3] = "sdpa" -> "Other"
               [] OTHER -> "Linear")
      [] n[1] \in {"A", "P"} ->
            (CASE n[3] = "self" -> "CrossAttentionAdapter"
               [] n[3] \in {"ipq", "ipk", "ipv", "ipo"} -> "InjectionPoint"
               [] n[3] \in {"wk", "wv"} -> "Linear"
               [] n[3] \in {"kts", "kis", "vts", "vis", "stl", "sts",
                            "sil", "sis", "sisc"} -> "Other"
               [] OTHER -> "Chain")
      [] n[1] = "W" -> n[3]
      [] OTHER -> "Other"

\* isinstance(m, k) for the classes the file tests.
SubclassesOf(k) ==
    CASE k = "Chain" -> {"Chain", "Attention", "SelfAttention", "Lora",
                         "InjectionPoint", "CrossAttentionAdapter", "IPAdapter"}
      [] k = "Attention" -> {"Attention", "SelfAttention"}
      [] OTHER -> {k}

IsInstance(n, k) == Kind(n) \in SubclassesOf(k)


(***************************************************************************)
(* fluxion primitives (described by the specification, section 2 and 6:    *)
(* "ordered, composable container ... structural traversal, sub-tree       *)
(* search by node kind/predicate, positional insertion/removal").          *)
(***************************************************************************)
Range(s) == {s[i] : i \in 1..Len(s)}

\* Chain.append(module): the module becomes the last child.  The module is
\* not removed from any other child list it is in.
Chain_append(ch, c, m) == [ch EXCEPT ![c] = Append(@, m)]

\* Chain.pop(): removes the last child; raises on an empty chain.
Chain_pop(ch, c) ==
    IF Len(ch[c]) = 0
    THEN [ok |-> FALSE, ch |-> ch]
    ELSE [ok |-> TRUE, ch |-> [ch EXCEPT ![c] = SubSeq(@, 1, Len(@) - 1)]]

\* Chain.replace(old, new): new takes old's position in the child list.
Chain_replace(ch, c, old, new) ==
    LET i == CHOOSE j \in 1..Len(ch[c]) :
                 ch[c][j] = old /\ \A l \in 1..(j - 1) : ch[c][l] # old
    IN  [ch EXCEPT ![c][i] = new]

\* Chain.walk(predicate, recurse=False): depth-first, in child order.  A
\* predicate raising the early-exit signal skips the module and everything
\* below it; a match is yielded and not descended into; any other chain is
\* descended into.  pr maps each node to "raise", "true" or "false".
RECURSIVE WalkSeq(_, _, _)
walk(ch, n, pr) == WalkSeq(ch, ch[n], pr)
WalkSeq(ch, ms, pr) ==
    IF ms = <<>> THEN <<>>
    ELSE LET m == Head(ms)
             here == IF pr[m] = "raise" THEN <<>>
                     ELSE IF pr[m] = "true" THEN <<m>>
                     ELSE IF IsInstance(m, "Chain") THEN WalkSeq(ch, ch[m], pr)
                     ELSE <<>>
         IN  here \o WalkSeq(ch, Tail(ms), pr)

\* Chain.layers(layer_type): walk with the predicate isinstance(m, layer_type).
layers(ch, n, k) ==
    walk(ch, n, [m \in Nodes |-> IF IsInstance(m, k) THEN "true" ELSE "false"])

\* Adapter.inject(parent): the adapter takes the target's place in the
\* target's parent container (the given one, or the one the target's parent
\* reference names).  Fails, changing nothing, when there is no such
\* container other than the adapter itself, or the target is not one of its
\* children.
Adapter_inject(st, a, parentArg) ==
    LET t == st.tg[a]
        self == Node(a, "self")
        p == IF parentArg = None THEN st.par[t] ELSE parentArg
        \* the chain of the adapter's own tree holding the target, if any
        inside == {n \in Nodes : n[1] = a[1] /\ n[2] = a[2] /\ t \in Range(st.ch[n])}
        tp == IF inside = {} THEN None ELSE CHOOSE n \in inside : TRUE
    IN  IF p = None \/ p = self \/ t \notin Range(st.ch[p])
        THEN [st EXCEPT !.ok = FALSE]
        ELSE [st EXCEPT !.ch = Chain_replace(st.ch, p, t, self),
                        !.par = [st.par EXCEPT ![self] = p, ![t] = tp],
                        !.log = Append(st.log, <<"substitute", a>>)]

\* Adapter.eject(): the target is put back in the adapter's place in the
\* adapter's parent container; nothing to restore when the adapter has none.
Adapter_eject(st, a) ==
    LET t == st.tg[a]
        self == Node(a, "self")
        p == st.par[self]
    IN  IF p = None \/ self \notin Range(st.ch[p])
        THEN [st EXCEPT !.log = Append(st.log, <<"restore", a>>)]
        ELSE [st EXCEPT !.ch = Chain_replace(st.ch, p, self, t),
                        !.par = [st.par EXCEPT ![self] = None, ![t] = p],
                        !.log = Append(st.log, <<"restore", a>>)]

(***************************************************************************)
(* CrossAttentionAdapter                                                   *)
(***************************************************************************)
\* Mutant of AdapterTree: one Slicing object reused by the text-key and the
\* text-value chain.
AdapterTree_SharedSlicing(a) ==
    [p \in AdapterParts |->
        CASE p = "self" -> <<Node(a, "dist"), Node(a, "sum"), Node(a, "ipo")>>
          [] p = "dist" -> <<Node(a, "ipq"), Node(a, "park"), Node(a, "parv")>>
          [] p = "park" -> <<Node(a, "kt"), Node(a, "ki")>>
          [] p = "kt"   -> <<Node(a, "kts"), Node(a, "ipk")>>
          [] p = "ki"   -> <<Node(a, "kis"), Node(a, "wk")>>
          [] p = "parv" -> <<Node(a, "vt"), Node(a, "vi")>>
          [] p = "vt"   -> <<Node(a, "kts"), Node(a, "ipv")>>
          [] p = "vi"   -> <<Node(a, "vis"), Node(a, "wv")>>
          [] p = "sum"  -> <<Node(a, "st"), Node(a, "si")>>
          [] p = "st"   -> <<Node(a, "stl"), Node(a, "sts")>>
          [] p = "si"   -> <<Node(a, "sil"), Node(a, "sis"), Node(a, "sisc")>>
          [] OTHER -> <<>>]

\* The child lists CrossAttentionAdapter.__init__ builds (lines 72-121).
AdapterTree(a) ==
    [p \in AdapterParts |->
        CASE p = "self" -> <<Node(a, "dist"), Node(a, "sum"), Node(a, "ipo")>>
          [] p = "dist" -> <<Node(a, "ipq"), Node(a, "park"), Node(a, "parv")>>
          [] p = "park" -> <<Node(a, "kt"), Node(a, "ki")>>
          [] p = "kt"   -> <<Node(a, "kts"), Node(a, "ipk")>>
          [] p = "ki"   -> <<Node(a, "kis"), Node(a, "wk")>>
          [] p = "parv" -> <<Node(a, "vt"), Node(a, "vi")>>
          [] p = "vt"   -> <<Node(a, "vts"), Node(a, "ipv")>>
          [] p = "vi"   -> <<Node(a, "vis"), Node(a, "wv")>>
          [] p = "sum"  -> <<Node(a, "st"), Node(a, "si")>>
          [] p = "st"   -> <<Node(a, "stl"), Node(a, "sts")>>
          [] p = "si"   -> <<Node(a, "sil"), Node(a, "sis"), Node(a, "sisc")>>
          [] OTHER -> <<>>]

\* CrossAttentionAdapter.__init__: records the target and builds the
\* adapter's own tree; neither the target nor its parent is touched, and the
\* target's linear maps are not searched for.
CrossAttentionAdapter_init(st, a, t) ==
    [st EXCEPT !.tg = [st.tg EXCEPT ![a] = t],
               !.ch = [n \in Nodes |->
                          IF n[1] = a[1] /\ n[2] = a[2]
                          THEN AdapterTree(a)[n[3]] ELSE st.ch[n]]]

\* Mutant of _predicate: a Lora is not treated apart.
_predicate_NoLora(k) ==
    [m \in Nodes |-> IF IsInstance(m, k) THEN "true" ELSE "false"]

\* _predicate(k): raise StopIteration on a Lora, else isinstance(m, k).
_predicate(k) ==
    [m \in Nodes |-> IF IsInstance(m, "Lora") THEN "raise"
                     ELSE IF IsInstance(m, k) THEN "true" ELSE "false"]

\* _target_linears(): the Linear modules of the walk of the target.
_target_linears(ch, t) ==
    SelectSeq(walk(ch, t, _predicate("Linear")), LAMBDA m : IsInstance(m, "Linear"))

\* list(self.layers(InjectionPoint))
injection_points(ch, a) == layers(ch, Node(a, "self"), "InjectionPoint")

Min(x, y) == IF x < y THEN x ELSE y

\* Mutant of InjectLoop: the linear maps are paired with the splice points in
\* reverse order.
RECURSIVE InjectLoop_Reversed(_, _, _, _)
InjectLoop_Reversed(st, linears, ips, i) ==
    IF i > Min(Len(linears), Len(ips)) THEN st
    ELSE LET ip == ips[Len(ips) + 1 - i]
             ch1 == Chain_append(st.ch, ip, linears[i])
         IN  IF Len(ch1[ip]) # 1
             THEN [st EXCEPT !.ch = ch1, !.ok = FALSE]
             ELSE InjectLoop_Reversed([st EXCEPT !.ch = ch1], linears, ips, i + 1)

\* for linear, ip in zip(linears, injection_points):
\*     ip.append(linear); assert len(ip) == 1
RECURSIVE InjectLoop(_, _, _, _)
InjectLoop(st, linears, ips, i) ==
    IF i > Min(Len(linears), Len(ips)) THEN st
    ELSE LET ch1 == Chain_append(st.ch, ips[i], linears[i])
         IN  IF Len(ch1[ips[i]]) # 1
             THEN [st EXCEPT !.ch = ch1, !.ok = FALSE]
             ELSE InjectLoop([st EXCEPT !.ch = ch1], linears, ips, i + 1)

\* Mutant of CrossAttentionAdapter.inject: no check of the number of linear maps.
CrossAttentionAdapter_inject_NoCount(st, a, parentArg) ==
    LET linears == _target_linears(st.ch, st.tg[a])
        ips == injection_points(st.ch, a)
    IN  IF Len(ips) # 4 THEN [st EXCEPT !.ok = FALSE]
        ELSE LET s1 == InjectLoop(st, linears, ips, 1)
             IN  IF ~s1.ok THEN s1 ELSE Adapter_inject(s1, a, parentArg)

\* CrossAttentionAdapter.inject(parent)
CrossAttentionAdapter_inject(st, a, parentArg) ==
    LET linears == _target_linears(st.ch, st.tg[a])
        ips == injection_points(st.ch, a)
    IN  IF Len(linears) # 4 THEN [st EXCEPT !.ok = FALSE]
        ELSE IF Len(ips) # 4 THEN [st EXCEPT !.ok = FALSE]
        ELSE LET s1 == InjectLoop(st, linears, ips, 1)
             IN  IF ~s1.ok THEN s1 ELSE Adapter_inject(s1, a, parentArg)

\* for ip in injection_points: ip.pop(); assert len(ip) == 0
RECURSIVE EjectLoop(_, _, _)
EjectLoop(st, ips, i) ==
    IF i > Len(ips) THEN st
    ELSE LET r == Chain_pop(st.ch, ips[i])
         IN  IF ~r.ok THEN [st EXCEPT !.ok = FALSE]
             ELSE IF Len(r.ch[ips[i]]) # 0
             THEN [st EXCEPT !.ch = r.ch, !.ok = FALSE]
             ELSE EjectLoop([st EXCEPT !.ch = r.ch], ips, i + 1)

\* Mutant of CrossAttentionAdapter.eject: super().eject() is not called.
CrossAttentionAdapter_eject_NoSuper(st, a) ==
    LET ips == injection_points(st.ch, a)
    IN  IF Len(ips) # 4 THEN [st EXCEPT !.ok = FALSE]
        ELSE EjectLoop(st, ips, 1)

\* CrossAttentionAdapter.eject()
CrossAttentionAdapter_eject(st, a) ==
    LET ips == injection_points(st.ch, a)
    IN  IF Len(ips) # 4 THEN [st EXCEPT !.ok = FALSE]
        ELSE LET s1 == EjectLoop(st, ips, 1)
             IN  IF ~s1.ok THEN s1 ELSE Adapter_eject(s1, a)


(***************************************************************************)
(* IPAdapter                                                               *)
(***************************************************************************)
\* filter(lambda attn: type(attn) != fl.SelfAttention, target.layers(fl.Attention))
CrossAttentionSites(ch, t) ==
    SelectSeq(layers(ch, t, "Attention"), LAMBDA m : Kind(m) # "SelfAttention")

SubAdapterOf(site) == <<"P", site[2]>>

RECURSIVE BuildSubAdapters(_, _, _)
BuildSubAdapters(st, sites, i) ==
    IF i > Len(sites) THEN st
    ELSE BuildSubAdapters(
             CrossAttentionAdapter_init(st, SubAdapterOf(sites[i]), sites[i]),
             sites, i + 1)

\* IPAdapter.__init__ without weights: the IPAdapter holds the target as its
\* only child (the target's own parent reference is left alone), and one
\* CrossAttentionAdapter is built per cross-attention site, in traversal order.
IPAdapter_init(st, t) ==
    LET s0 == [st EXCEPT !.tg = [st.tg EXCEPT ![IPId] = t],
                         !.ch = [st.ch EXCEPT ![Node(IPId, "self")] = <<t>>]]
        sites == CrossAttentionSites(s0.ch, t)
    IN  [st  |-> BuildSubAdapters(s0, sites, 1),
         subs |-> [i \in 1..Len(sites) |-> SubAdapterOf(sites[i])]]

\* for adapter in self.sub_adapters: adapter.inject()
RECURSIVE InjectSubAdapters(_, _, _)
InjectSubAdapters(st, subs, i) ==
    IF i > Len(subs) THEN st
    ELSE LET r == CrossAttentionAdapter_inject(
                      [st EXCEPT !.log = Append(@, <<"inject", subs[i]>>)],
                      subs[i], None)
         IN  IF ~r.ok THEN r ELSE InjectSubAdapters(r, subs, i + 1)

\* IPAdapter.inject(parent)
IPAdapter_inject(st, subs, parentArg) ==
    LET s1 == InjectSubAdapters(st, subs, 1)
    IN  IF ~s1.ok THEN s1 ELSE Adapter_inject(s1, IPId, parentArg)

\* for adapter in self.sub_adapters: adapter.eject()
RECURSIVE EjectSubAdapters(_, _, _)
EjectSubAdapters(st, subs, i) ==
    IF i > Len(subs) THEN st
    ELSE LET r == CrossAttentionAdapter_eject(
                      [st EXCEPT !.log = Append(@, <<"eject", subs[i]>>)],
                      subs[i])
         IN  IF ~r.ok THEN r ELSE EjectSubAdapters(r, subs, i + 1)

\* Mutant of IPAdapter.eject: the top-level substitution is restored first.
IPAdapter_eject_TopFirst(st, subs) ==
    EjectSubAdapters(Adapter_eject(st, IPId), subs, 1)

\* IPAdapter.eject()
IPAdapter_eject(st, subs) ==
    LET s1 == EjectSubAdapters(st, subs, 1)
    IN  IF ~s1.ok THEN s1 ELSE Adapter_eject(s1, IPId)

(***************************************************************************)
(* The target graph                                                        *)
(***************************************************************************)
\* Layouts of a cross-attention site.  "std" is fl.Attention as built:
\* Chain(Distribute(Wq, Wk, Wv), ScaledDotProductAttention, Wout).  The
\* others are a site some of whose linear maps were Lora-adapted
\* (Sum(Linear, Lora(down, up)) in the linear map's place), or a site with a
\* linear map missing or added.
Shapes == {"std", "loraQ", "loraOut", "loraBare", "loraV", "three", "five"}

AttentionTree(o, sh) ==
    [p \in AttentionParts |->
        CASE p = "self" ->
                (CASE sh = "loraOut" -> <<Node(o, "dist"), Node(o, "sdpa"), Node(o, "sum")>>
                   [] sh = "loraBare" -> <<Node(o, "dist"), Node(o, "sdpa"), Node(o, "out"),
                                           Node(o, "lora")>>
                   [] sh \in {"three", "loraV"} -> <<Node(o, "dist"), Node(o, "sdpa")>>
                   [] sh = "five" -> <<Node(o, "dist"), Node(o, "sdpa"), Node(o, "out"),
                                       Node(o, "extra")>>
                   [] OTHER -> <<Node(o, "dist"), Node(o, "sdpa"), Node(o, "out")>>)
          [] p = "dist" ->
                (CASE sh = "loraQ" -> <<Node(o, "sum"), Node(o, "k"), Node(o, "v")>>
                   [] sh = "loraV" -> <<Node(o, "q"), Node(o, "k"), Node(o, "lora")>>
                   [] OTHER -> <<Node(o, "q"), Node(o, "k"), Node(o, "v")>>)
          [] p = "sum" ->
                (CASE sh = "loraQ" -> <<Node(o, "q"), Node(o, "lora")>>
                   [] sh = "loraOut" -> <<Node(o, "out"), Node(o, "lora")>>
                   [] OTHER -> <<>>)
          [] p = "lora" ->
                (IF sh \in {"loraQ", "loraOut", "loraBare", "loraV"}
                 THEN <<Node(o, "down"), Node(o, "up")>> ELSE <<>>)
          [] OTHER -> <<>>]

RECURSIVE SiteSeq(_)
SiteSeq(i) == IF i \notin Sites THEN <<>> ELSE <<Node(X(i), "self")>> \o SiteSeq(i + 1)

\* H holds the UNet; the UNet holds X1, the self-attention S, X2, ...
InitChildren(sh) ==
    [n \in Nodes |->
        CASE n = H -> <<U>>
          [] n = U -> <<Node(X(1), "self"), Node(S, "self")>> \o SiteSeq(2)
          [] n[1] = "S" -> AttentionTree(S, "std")[n[3]]
          [] n[1] = "X" -> AttentionTree(X(n[2]), IF n[2] = 1 THEN sh ELSE "std")[n[3]]
          [] OTHER -> <<>>]

InitParent ==
    [n \in Nodes |->
        CASE n = U -> H
          [] n[1] \in {"X", "S"} /\ n[3] = "self" -> U
          [] n[1] \in {"X", "S"} /\ n[3] \in {"dist", "sum", "lora"} ->
                Node(<<n[1], n[2]>>, IF n[3] = "lora" THEN "sum" ELSE "self")
          [] OTHER -> None]

(***************************************************************************)
(* The state machine of graph surgery                                      *)
(***************************************************************************)
Cur == [ch |-> children, par |-> parent, tg |-> target, ok |-> TRUE, log |-> <<>>]

Built(a) == target[a] # None

SplicePoints(a) == {Node(a, p) : p \in {"ipq", "ipk", "ipv", "ipo"}}

Room(a) == \A ip \in SplicePoints(a) : Len(children[ip]) < MaxChildren

Commit(r, op, who, arg) ==
    /\ children' = r.ch
    /\ parent' = r.par
    /\ target' = r.tg
    /\ last' = [op |-> op, who |-> who, arg |-> arg, ok |-> r.ok, log |-> r.log]
    /\ pre' = children
    /\ UNCHANGED <<wvars, svars, lvars>>

IdleSearch == search = [done |-> FALSE, linears |-> <<>>]

Ordinals == 0..(LoadAdapters - 1)

\* The parameters of a freshly built CrossAttentionAdapter (those of its new
\* key and value maps) and of the ImageProjection, by name.
AdapterParamNames == {<<"k">>, <<"v">>}
ProjParamNames == {<<"w">>}

Fresh == <<>>

NotLoaded ==
    [status |-> "no", reached |-> 0,
     handed |-> [i \in Ordinals |-> {}],
     proj   |-> [r \in ProjParamNames |-> Fresh],
     params |-> [i \in Ordinals |-> [r \in AdapterParamNames |-> Fresh]]]

IdleLoad == weights = {} /\ loaded = NotLoaded

NotDistributed == [done |-> FALSE, query |-> <<>>, keys |-> <<>>, values |-> <<>>]

IdleForward ==
    /\ text_sequence_length = 0
    /\ image_sequence_length = 0
    /\ context = <<>>
    /\ distributed = NotDistributed
    /\ picked = [l \in {"stl", "sil"} |-> <<>>]

Init ==
    /\ \E sh \in Shapes : children = InitChildren(sh)
    /\ parent = InitParent
    /\ target = [a \in AdapterIds |-> None]
    /\ sub_adapters = <<>>
    /\ last = [op |-> "none", who |-> None, arg |-> None, ok |-> TRUE, log |-> <<>>]
    /\ pre = children
    /\ IdleSearch
    /\ IdleForward
    /\ IdleLoad

\* CrossAttentionAdapter(target=X1) for a standalone adapter
Construct(a) ==
    /\ ~Built(a)
    /\ Commit(CrossAttentionAdapter_init(Cur, a, Node(X(1), "self")), "init", a, None)
    /\ UNCHANGED sub_adapters

\* IPAdapter(target=U, ...)
IPConstruct ==
    /\ ~Built(IPId)
    /\ LET r == IPAdapter_init(Cur, U)
       IN  Commit(r.st, "init", IPId, None) /\ sub_adapters' = r.subs

Inject(a, p) ==
    /\ Built(a) /\ Room(a)
    /\ Commit(CrossAttentionAdapter_inject(Cur, a, p), "inject", a, p)
    /\ UNCHANGED sub_adapters

Eject(a) ==
    /\ Built(a)
    /\ Commit(CrossAttentionAdapter_eject(Cur, a), "eject", a, None)
    /\ UNCHANGED sub_adapters

IPInject(p) ==
    /\ Built(IPId) /\ \A i \in 1..Len(sub_adapters) : Room(sub_adapters[i])
    /\ Commit(IPAdapter_inject(Cur, sub_adapters, p), "inject", IPId, p)
    /\ UNCHANGED sub_adapters

IPEject ==
    /\ Built(IPId)
    /\ Commit(IPAdapter_eject(Cur, sub_adapters), "eject", IPId, None)
    /\ UNCHANGED sub_adapters

Next ==
    \/ \E a \in Standalone : Construct(a)
    \/ IPConstruct
    \/ \E a \in CAIds, p \in {None, U} : Inject(a, p)
    \/ \E a \in CAIds : Eject(a)
    \/ \E p \in {None, H} : IPInject(p)
    \/ IPEject

Spec == Init /\ [][Next]_vars


(***************************************************************************)
(* Properties of graph surgery                                             *)
(***************************************************************************)
Empty(a) == \A ip \in SplicePoints(a) : children[ip] = <<>>

Parents(ch, n) == {c \in Nodes : n \in Range(ch[c])}

\* The slots of an adapter, found by their place in the tree __init__ builds:
\* the Distribute's first child, the module after the Slicing in the first
\* chain of the key and of the value Parallel, and the adapter's last child.
Distribute(a) == children[Node(a, "self")][1]
QuerySlot(a) == children[Distribute(a)][1]
TextKeySlot(a) == children[children[children[Distribute(a)][2]][1]][2]
TextValueSlot(a) == children[children[children[Distribute(a)][3]][1]][2]
OutputSlot(a) == children[Node(a, "self")][3]

TargetOwner(a) == <<target[a][1], target[a][2]>>

\* C1: a CrossAttentionAdapter.inject() that succeeds, followed immediately
\* by eject() of the same adapter: the eject succeeds, every child list of
\* the graph (the target subtree and the parent's list among them) is again
\* what it was when the inject began, same nodes in the same order, and the 4
\* splice points are empty; and inject() does succeed on an adapter with empty
\* splice points whose target has exactly 4 matching linear maps and is a
\* child of the container it is to be replaced in.
C1_RoundTrip ==
    [][\A a \in CAIds :
          /\ (/\ last.op = "inject" /\ last.who = a /\ last.ok
              /\ last'.op = "eject" /\ last'.who = a)
             => (/\ last'.ok
                 /\ children' = pre
                 /\ \A ip \in SplicePoints(a) : children'[ip] = <<>>)
          /\ (/\ last'.op = "inject" /\ last'.who = a
              /\ Built(a) /\ Empty(a)
              /\ Len(_target_linears(children, target[a])) = 4
              /\ LET p == IF last'.arg = None THEN parent[target[a]] ELSE last'.arg
                 IN  p # None /\ target[a] \in Range(children[p]))
             => last'.ok]_gvars

\* C1 witness: an eject() that followed a successful inject() of the same
\* adapter, which had put the adapter in the target's place.
C1_Witness ==
    \E a \in CAIds :
        /\ last.op = "eject" /\ last.who = a /\ last.ok
        /\ \E c \in Nodes : Node(a, "self") \in Range(pre[c])
        /\ \A ip \in SplicePoints(a) : Len(pre[ip]) = 1
        /\ Empty(a)
        /\ target[a] \in Range(children[U])

\* The order of the structural steps of a successful IPAdapter.eject():
\* position of the top-level restore and of the per-site ejects in the log.
Positions(log, e) == {i \in 1..Len(log) : log[i] = e}

\* C2 (as claimed): in IPAdapter.eject() the top-level substitution is
\* restored first, and every Per-Site Adapter is ejected after it.
C2_Original ==
    (last.op = "eject" /\ last.who = IPId /\ last.ok)
    => \A i \in Positions(last.log, <<"restore", IPId>>) :
         \A j \in 1..Len(last.log) : last.log[j][1] = "eject" => i < j

\* C2 (amended): IPAdapter.eject() runs in the same order as inject(): every
\* Per-Site Adapter is ejected, in sub_adapters order, and the top-level
\* substitution is restored last; inject() injects every Per-Site Adapter, in
\* sub_adapters order, and substitutes the IPAdapter last.
C2_Amended ==
    /\ (last.op = "eject" /\ last.who = IPId /\ last.ok)
       => /\ SelectSeq(last.log, LAMBDA e : e[1] = "eject")
               = [i \in 1..Len(sub_adapters) |-> <<"eject", sub_adapters[i]>>]
          /\ Positions(last.log, <<"restore", IPId>>) = {Len(last.log)}
    /\ (last.op = "inject" /\ last.who = IPId /\ last.ok)
       => /\ SelectSeq(last.log, LAMBDA e : e[1] = "inject")
               = [i \in 1..Len(sub_adapters) |-> <<"inject", sub_adapters[i]>>]
          /\ Positions(last.log, <<"substitute", IPId>>) = {Len(last.log)}

\* C2 witness: a successful IPAdapter.eject() over two Per-Site Adapters that
\* took the IPAdapter out of the container it stood in.
C2_Witness ==
    /\ last.op = "eject" /\ last.who = IPId /\ last.ok
    /\ Len(sub_adapters) = 2
    /\ Node(IPId, "self") \in Range(pre[H])
    /\ children[H] = <<U>>

\* C3 (as claimed): no CrossAttentionAdapter gets built over a target whose
\* search yields a number of linear maps other than 4.
C3_Original ==
    \A a \in CAIds : Built(a) => Len(_target_linears(children, target[a])) = 4

\* C3 (amended): construction does not search the target and succeeds; it is
\* CrossAttentionAdapter.inject() that fails on a target whose search yields
\* a number of linear maps other than 4, and it fails before any child list
\* of the graph or of the adapter's splice points is changed.
C3_Amended ==
    /\ \A a \in CAIds :
          (last.op = "inject" /\ last.who = a
             /\ Len(_target_linears(pre, target[a])) # 4)
          => (~last.ok /\ children = pre)
    /\ (last.op = "init" /\ last.who \in CAIds)
          => (last.ok /\ \A n \in Nodes : n[1] \notin {"A", "P"} => children[n] = pre[n])

\* C3 witness: a failed inject() over a target with 3 or 5 linear maps.
C3_Witness ==
    \E a \in CAIds :
        /\ last.op = "inject" /\ last.who = a /\ ~last.ok
        /\ Len(_target_linears(pre, target[a])) \in {2, 3, 5}

\* C4: a CrossAttentionAdapter.inject() or eject() that fails leaves every
\* child list (the 4 splice points, the parent's) as it was before the call.
C4_Original ==
    (last.op \in {"inject", "eject"} /\ last.who \in CAIds /\ ~last.ok)
    => children = pre

\* C8: after a successful CrossAttentionAdapter.inject() (alone or as part of
\* IPAdapter.inject()), the adapter's 4 splice points in declaration order are
\* its query, text-key, text-value and output slots, each holds exactly one
\* child, the i-th linear map of the target's traversal, and these are the
\* target's query, key, value and output maps.
C8_Splice ==
    \A a \in CAIds :
        (/\ last.op = "inject" /\ last.ok
         /\ \/ last.who = a
            \/ last.who = IPId /\ a \in Range(sub_adapters))
        => LET lin == _target_linears(children, target[a])
               ips == injection_points(children, a)
           IN  /\ Len(ips) = 4 /\ Len(lin) = 4
               /\ ips = <<QuerySlot(a), TextKeySlot(a), TextValueSlot(a), OutputSlot(a)>>
               /\ \A i \in 1..4 : children[ips[i]] = <<lin[i]>>
               /\ lin = <<Node(TargetOwner(a), "q"), Node(TargetOwner(a), "k"),
                          Node(TargetOwner(a), "v"), Node(TargetOwner(a), "out")>>

\* C8 witness: a successful inject() over a site one of whose linear maps is
\* Lora-adapted.
C8_Witness ==
    \E a \in CAIds :
        /\ last.op = "inject" /\ last.who = a /\ last.ok
        /\ children[Node(TargetOwner(a), "lora")] # <<>>
        /\ children[OutputSlot(a)] = <<Node(TargetOwner(a), "out")>>

\* C9 (as claimed): every node is a child of one container at most.
C9_Original ==
    \A n \in Nodes : Cardinality(Parents(children, n)) <= 1

IsSplicePoint(c) == Kind(c) = "InjectionPoint"

TargetLinears == {n \in Nodes : n[1] = "X" /\ Kind(n) = "Linear"}

\* C9 (amended): every node is a child of one container at most, apart from
\* two cases of sharing.  The IPAdapter's target is a child of the IPAdapter
\* from construction on, besides the container it was in.  A target's linear
\* maps never leave their container in the target; a splice point holds them
\* in addition, so that after a successful inject() each of the 4 spliced
\* linear maps is a child of two containers at once.
C9_Amended ==
    /\ LET cs == {c \in Nodes : children[c] # <<>> /\ ~IsSplicePoint(c)}
       IN  \A c1, c2 \in cs :
              c1 # c2 => Range(children[c1]) \cap Range(children[c2])
                            \subseteq (IF Node(IPId, "self") \in {c1, c2} THEN {U} ELSE {})
    /\ \A c \in Nodes : IsSplicePoint(c) => Range(children[c]) \subseteq TargetLinears
    /\ \A a \in CAIds :
          (last.op = "inject" /\ last.who = a /\ last.ok)
          => \A ip \in SplicePoints(a) : \A n \in Range(children[ip]) :
                /\ Cardinality(Parents(children, n)) >= 2
                /\ \E c \in Parents(children, n) : c[1] = "X"

\* C9 witness: after a successful inject() the target's query map is a child
\* of the target's Distribute and of the adapter's query splice point.
C9_Witness ==
    \E a \in CAIds :
        /\ last.op = "inject" /\ last.who = a /\ last.ok
        /\ {Node(TargetOwner(a), "dist"), Node(a, "ipq")}
              \subseteq Parents(children, Node(TargetOwner(a), "q"))

\* An adapter is injected when a splice point of it is filled or it stands
\* in a container in its target's place.
Injected(a) ==
    \/ \E ip \in SplicePoints(a) : children[ip] # <<>>
    \/ Parents(children, Node(a, "self")) # {}

\* C10: of two CrossAttentionAdapters built over the same target, at most
\* one is injected at a time.
C10_Original ==
    \A a, b \in CAIds :
        (a # b /\ Built(a) /\ Built(b) /\ target[a] = target[b])
        => ~(Injected(a) /\ Injected(b))


(***************************************************************************)
(* The search for the target's linear maps, on arbitrary trees             *)
(***************************************************************************)
\* The trees: the nodes below the root are numbered in traversal order, so a
\* node's parent has a smaller number (0 is the root) and is a container, and
\* siblings are ordered by number.
RECURSIVE AncestorsOrSelf(_, _)
AncestorsOrSelf(up, j) == IF j = 0 THEN {0} ELSE {j} \cup AncestorsOrSelf(up, up[j])

TreeShapes ==
    {t \in [kind : [1..MaxTreeNodes -> WalkKinds], up : [1..MaxTreeNodes -> 0..(MaxTreeNodes - 1)]] :
        \A i \in 1..MaxTreeNodes :
            /\ t.up[i] < i
            /\ t.up[i] # 0 => t.kind[t.up[i]] \in {"Chain", "Lora"}
            \* traversal order: node i hangs below node i - 1 or below one of
            \* its ancestors
            /\ t.up[i] \in AncestorsOrSelf(t.up, i - 1)}

RECURSIVE ChildrenFrom(_, _, _)
ChildrenFrom(t, j, i) ==
    IF i > MaxTreeNodes THEN <<>>
    ELSE (IF t.up[i] = j THEN <<WNode(i, t.kind[i])>> ELSE <<>>) \o ChildrenFrom(t, j, i + 1)

TreeChildren(t) ==
    [n \in Nodes |->
        IF n = WRoot THEN ChildrenFrom(t, 0, 1)
        ELSE IF n[1] = "W" /\ n[2] \in 1..MaxTreeNodes /\ t.kind[n[2]] = n[3]
             THEN ChildrenFrom(t, n[2], 1)
        ELSE <<>>]

WalkAdapter == <<"A", 1>>

InitWalk ==
    /\ \E t \in TreeShapes : children = TreeChildren(t)
    /\ parent = [n \in Nodes |-> None]
    /\ target = [a \in AdapterIds |-> IF a = WalkAdapter THEN WRoot ELSE None]
    /\ sub_adapters = <<>>
    /\ last = [op |-> "none", who |-> None, arg |-> None, ok |-> TRUE, log |-> <<>>]
    /\ pre = children
    /\ IdleSearch
    /\ IdleForward
    /\ IdleLoad

\* linears = self._target_linears()
Search ==
    /\ ~search.done
    /\ search' = [done |-> TRUE, linears |-> _target_linears(children, target[WalkAdapter])]
    /\ UNCHANGED <<gvars, svars, lvars>>

NextWalk == Search

SpecWalk == InitWalk /\ [][NextWalk]_vars

\* The tree as a parent relation, read off the child lists.
InTree(n) == n = WRoot \/ \E c \in WNodes : n \in Range(children[c])
UpOf(n) == CHOOSE c \in WNodes : n \in Range(children[c])

RECURSIVE UnderLora(_)
UnderLora(n) ==
    IF n = WRoot THEN FALSE
    ELSE Kind(UpOf(n)) = "Lora" \/ UnderLora(UpOf(n))

RECURSIVE InOrder(_)
InOrder(i) ==
    IF i > MaxTreeNodes THEN <<>>
    ELSE LET here == {n \in WNodes : n[2] = i /\ InTree(n)}
         IN  (IF here = {} THEN <<>> ELSE <<CHOOSE n \in here : TRUE>>) \o InOrder(i + 1)

\* C6: the list _target_linears returns holds no linear map that lies
\* anywhere below a Lora, whatever the number and the places of the Loras in
\* the target, and it holds every linear map of the target that lies below no
\* Lora, in traversal order: a Lora prunes its own branch only, and the search
\* returns a list (the pruning signal ends inside the walk).
C6_Pruning ==
    search.done =>
        /\ \A m \in Range(search.linears) : Kind(m) = "Linear" /\ ~UnderLora(m)
        /\ search.linears
             = SelectSeq(InOrder(1), LAMBDA n : Kind(n) = "Linear" /\ ~UnderLora(n))

\* C6 witness: a searched tree with a linear map nested inside a Lora, not
\* as its direct child, and a linear map outside every Lora that comes after
\* it in the traversal and is the one the search returns.
C6_Witness ==
    /\ search.done
    /\ \E i, j \in 1..MaxTreeNodes :
          LET b == WNode(i, "Linear")
              c == WNode(j, "Linear")
          IN  /\ i < j /\ InTree(b) /\ InTree(c)
              /\ UnderLora(b) /\ Kind(UpOf(b)) # "Lora"
              /\ search.linears = <<c>>


(***************************************************************************)
(* The forward pass of a CrossAttentionAdapter: context slicing            *)
(***************************************************************************)
\* _CrossAttnIndex
TXT_CROSS_ATTN == 0
IMG_CROSS_ATTN == 1

\* fl.Slicing(dim=1, start, length): the positions start .. start+length-1 of
\* the sequence axis, as far as the sequence goes.
Slicing(x, start, length) == SubSeq(x, start + 1, Min(start + length, Len(x)))

\* Mutant of SlicingArgs: the image branches slice from offset 0.
SlicingArgs_ImageFromZero(part, tsl, isl) ==
    CASE part \in {"kts", "vts"} -> [start |-> 0, length |-> tsl]
      [] part \in {"kis", "vis"} -> [start |-> 0, length |-> isl]

\* The arguments of the four Slicing modules __init__ builds (lines 78, 82,
\* 94, 98).
SlicingArgs(part, tsl, isl) ==
    CASE part \in {"kts", "vts"} -> [start |-> 0, length |-> tsl]
      [] part \in {"kis", "vis"} -> [start |-> tsl, length |-> isl]

\* A linear map (a filled splice point or a new Linear) maps every position
\* of its input: the result records the map and the position.
MapTokens(part, x) == [i \in 1..Len(x) |-> <<part, x[i]>>]

\* fl.Chain(fl.Slicing(...), <linear map>) applied to the context.
BranchForward(a, chain, x, tsl, isl) ==
    LET c == AdapterTree(a)[chain]
        sl == SlicingArgs(c[1][3], tsl, isl)
    IN  MapTokens(c[2][3], Slicing(x, sl.start, sl.length))

\* fl.Parallel(branch, branch): the tuple of the branches' outputs, in order.
ParallelForward(a, par, x, tsl, isl) ==
    LET bs == AdapterTree(a)[par]
    IN  [i \in 1..Len(bs) |-> BranchForward(a, bs[i][3], x, tsl, isl)]

\* fl.Distribute(InjectionPoint(), Parallel(...), Parallel(...)) applied to
\* (x, context, context).
DistributeForward(a, x, ctx, tsl, isl) ==
    LET d == AdapterTree(a)["dist"]
    IN  [done |-> TRUE,
         query  |-> MapTokens(d[1][3], x),
         keys   |-> ParallelForward(a, d[2][3], ctx, tsl, isl),
         values |-> ParallelForward(a, d[3][3], ctx, tsl, isl)]

\* Mutant of LambdaIndex: both branches of the Sum select the text pair element.
LambdaIndex_BothText(l) == TXT_CROSS_ATTN

\* The index bound into each Lambda of the Sum (lines 111, 115).
LambdaIndex(l) == IF l = "stl" THEN TXT_CROSS_ATTN ELSE IMG_CROSS_ATTN

\* select_qkv(query, keys, values, index)
select_qkv(query, keys, values, index) == <<query, keys[index + 1], values[index + 1]>>

FwdAdapter == <<"A", 1>>

InitSlice ==
    /\ children = InitChildren("std")
    /\ parent = InitParent
    /\ target = [a \in AdapterIds |-> None]
    /\ sub_adapters = <<>>
    /\ last = [op |-> "none", who |-> None, arg |-> None, ok |-> TRUE, log |-> <<>>]
    /\ pre = children
    /\ IdleSearch
    /\ text_sequence_length \in 1..MaxText
    /\ image_sequence_length \in 1..MaxImage
    /\ context = [i \in 1..(text_sequence_length + image_sequence_length) |-> i - 1]
    /\ distributed = NotDistributed
    /\ picked = [l \in {"stl", "sil"} |-> <<>>]
    /\ IdleLoad

\* The Distribute of the adapter runs on (x, context, context).
Distribute_forward ==
    /\ ~distributed.done
    /\ distributed' = DistributeForward(FwdAdapter, <<"x">>, context,
                                        text_sequence_length, image_sequence_length)
    /\ UNCHANGED <<gvars, wvars, lvars, text_sequence_length, image_sequence_length,
                   context, picked>>

\* A branch of the Sum runs its Lambda, select_qkv with the branch's index.
Select(l) ==
    /\ distributed.done
    /\ picked[l] = <<>>
    /\ picked' = [picked EXCEPT ![l] = select_qkv(distributed.query, distributed.keys,
                                                  distributed.values, LambdaIndex(l))]
    /\ UNCHANGED <<gvars, wvars, lvars, text_sequence_length, image_sequence_length,
                   context, distributed>>

NextSlice == Distribute_forward \/ \E l \in {"stl", "sil"} : Select(l)

SpecSlice == InitSlice /\ [][NextSlice]_vars

PositionsOf(x) == {x[i][2] : i \in 1..Len(x)}

\* C7: with a context of length T + I, the text branch of the keys and of
\* the values holds exactly the positions 0 .. T-1, in order, mapped by the
\* text-key and text-value splice points, and the image branch exactly the
\* positions T .. T+I-1, in order, mapped by the new key and value maps; the
\* two slices are disjoint and cover the context; and select_qkv gives the
\* text branch of the Sum the text pair (index TXT_CROSS_ATTN = 0) and the
\* image branch the image pair (index IMG_CROSS_ATTN = 1).
C7_Slices ==
    LET T == text_sequence_length
        I == image_sequence_length
        textK == [i \in 1..T |-> <<"ipk", i - 1>>]
        textV == [i \in 1..T |-> <<"ipv", i - 1>>]
        imageK == [i \in 1..I |-> <<"wk", T + i - 1>>]
        imageV == [i \in 1..I |-> <<"wv", T + i - 1>>]
    IN  distributed.done =>
          /\ Len(context) = T + I
          /\ distributed.keys = <<textK, imageK>>
          /\ distributed.values = <<textV, imageV>>
          /\ PositionsOf(textK) \cap PositionsOf(imageK) = {}
          /\ PositionsOf(textK) \cup PositionsOf(imageK) = Range(context)
          /\ distributed.keys[TXT_CROSS_ATTN + 1] = textK
          /\ distributed.keys[IMG_CROSS_ATTN + 1] = imageK
          /\ picked["stl"] # <<>> => picked["stl"] = <<distributed.query, textK, textV>>
          /\ picked["sil"] # <<>> => picked["sil"] = <<distributed.query, imageK, imageV>>

\* C7 witness: both branches of the Sum have selected, with a text length
\* and an image length that differ and are both above 1.
C7_Witness ==
    /\ distributed.done
    /\ picked["stl"] # <<>> /\ picked["sil"] # <<>>
    /\ text_sequence_length > image_sequence_length /\ image_sequence_length > 1
    /\ Len(picked["sil"][2]) = image_sequence_length
    /\ Len(picked["stl"][3]) = text_sequence_length


(***************************************************************************)
(* IPAdapter.__init__ with a weight bundle                                 *)
(***************************************************************************)
\* Strings are sequences of characters.
IMAGE_PROJ == <<"i", "m", "a", "g", "e", "_", "p", "r", "o", "j", ".">>
IP_ADAPTER == <<"i", "p", "_", "a", "d", "a", "p", "t", "e", "r", ".">>

DigitChars == <<"0", "1", "2", "3", "4", "5", "6", "7", "8", "9">>

\* str(n) for a natural number
RECURSIVE Decimal(_)
Decimal(n) ==
    IF n < 10 THEN <<DigitChars[n + 1]>>
    ELSE Decimal(n \div 10) \o <<DigitChars[(n % 10) + 1]>>

\* the format specification 03d: zero-padded on the left to a width of 3
RECURSIVE ZeroPad3(_)
ZeroPad3(ds) == IF Len(ds) >= 3 THEN ds ELSE ZeroPad3(<<"0">> \o ds)

\* Mutant of OrdinalPrefix: the ordinal is not zero-padded.
OrdinalPrefix_Unpadded(i) == IP_ADAPTER \o Decimal(i) \o <<".">>

\* prefix = f"ip_adapter.{i:03d}."
OrdinalPrefix(i) == IP_ADAPTER \o ZeroPad3(Decimal(i)) \o <<".">>

\* str.startswith and str.removeprefix
startswith(k, p) == Len(k) >= Len(p) /\ SubSeq(k, 1, Len(p)) = p
removeprefix(k, p) == IF startswith(k, p) THEN SubSeq(k, Len(p) + 1, Len(k)) ELSE k

\* {k.removeprefix(prefix): v for k, v in weights.items() if k.startswith(prefix)}
\* as a set of <<name, tensor>>; the tensor of key k is written k.
SubBundle(w, prefix) == {<<removeprefix(k, prefix), k>> : k \in {x \in w : startswith(x, prefix)}}

\* module.load_state_dict(state_dict): called without strict, so with torch's
\* default strict=True: an error unless the names given are exactly the
\* module's parameter names; the parameters named are overwritten.
load_state_dict(params, sd) ==
    LET names == {e[1] : e \in sd}
    IN  [ok |-> names = DOMAIN params,
         params |-> [r \in DOMAIN params |->
                        IF r \in names THEN (CHOOSE e \in sd : e[1] = r)[2] ELSE params[r]]]

\* for i, cross_attn in enumerate(self.sub_adapters): ... load_state_dict(...)
RECURSIVE LoadSubAdapters(_, _, _)
LoadSubAdapters(l, w, i) ==
    IF i \notin Ordinals THEN [l EXCEPT !.status = "ok"]
    ELSE LET sd == SubBundle(w, OrdinalPrefix(i))
             r == load_state_dict(l.params[i], sd)
             l1 == [l EXCEPT !.reached = i + 1, !.handed[i] = sd, !.params[i] = r.params]
         IN  IF ~r.ok THEN [l1 EXCEPT !.status = "failed"]
             ELSE LoadSubAdapters(l1, w, i + 1)

\* if weights is not None: ... (lines 185-199)
LoadWeights(l, w) ==
    LET r == load_state_dict(l.proj, SubBundle(w, IMAGE_PROJ))
        l1 == [l EXCEPT !.proj = r.params]
    IN  IF ~r.ok THEN [l1 EXCEPT !.status = "failed"]
        ELSE LoadSubAdapters(l1, w, 0)

Key(prefix, rest) == prefix \o rest

\* The keys the bundles are drawn from: the parameters of the projection and
\* of every adapter, and keys that differ from them in the prefix, in the
\* width of the ordinal or in the parameter name.
KeyUniverse ==
    {Key(IMAGE_PROJ, <<"w">>)}
    \cup {Key(IP_ADAPTER, ZeroPad3(Decimal(i)) \o <<".">> \o r) :
             i \in Ordinals, r \in AdapterParamNames}
    \cup {Key(IP_ADAPTER, <<"0", "0", ".", "k">>),
          Key(IP_ADAPTER, <<"0", "0", "0", "1", ".", "k">>),
          Key(IP_ADAPTER, <<"1", ".", "k">>),
          Key(IP_ADAPTER, <<"0", "0", "2", ".", "x">>),
          <<"l", "o", "r", "a", ".", "k">>}

InitLoad ==
    /\ children = InitChildren("std")
    /\ parent = InitParent
    /\ target = [a \in AdapterIds |-> None]
    /\ sub_adapters = <<>>
    /\ last = [op |-> "none", who |-> None, arg |-> None, ok |-> TRUE, log |-> <<>>]
    /\ pre = children
    /\ IdleSearch
    /\ IdleForward
    /\ weights \in SUBSET KeyUniverse
    /\ loaded = NotLoaded

\* IPAdapter(target, clip_image_encoder, scale, weights): the loading part
IPConstructWithWeights ==
    /\ loaded.status = "no"
    /\ loaded' = LoadWeights(loaded, weights)
    /\ UNCHANGED <<gvars, wvars, svars, weights>>

NextLoad == IPConstructWithWeights

SpecLoad == InitLoad /\ [][NextLoad]_vars

\* Reading a key: it is `ip_adapter.` followed by exactly three decimal digits
\* whose value is i, a dot, and the parameter name.
DigitValue(c) == CHOOSE d \in 0..9 : DigitChars[d + 1] = c
IsDigit(c) == \E d \in 0..9 : DigitChars[d + 1] = c

KeyOfOrdinal(k, i) ==
    /\ Len(k) >= 15
    /\ SubSeq(k, 1, 11) = IP_ADAPTER
    /\ IsDigit(k[12]) /\ IsDigit(k[13]) /\ IsDigit(k[14])
    /\ 100 * DigitValue(k[12]) + 10 * DigitValue(k[13]) + DigitValue(k[14]) = i
    /\ k[15] = "."

NameOf(k) == SubSeq(k, 16, Len(k))

Complete(w) ==
    /\ {removeprefix(k, IMAGE_PROJ) : k \in {x \in w : startswith(x, IMAGE_PROJ)}}
          = ProjParamNames
    /\ \A i \in Ordinals : {NameOf(k) : k \in {x \in w : KeyOfOrdinal(x, i)}} = AdapterParamNames

Only000And002(w) ==
    {k \in w : startswith(k, IP_ADAPTER)}
       = {Key(IP_ADAPTER, <<"0", "0", d, ".">> \o r) : d \in {"0", "2"}, r \in AdapterParamNames}

\* C5 (as claimed): with a bundle whose ip_adapter keys are those of the
\* ordinals 0 and 2 only, construction succeeds, the adapters 0 and 2 hold
\* the bundle's tensors and the adapter 1 its fresh parameters.
C5_Original ==
    (loaded.status # "no" /\ Only000And002(weights))
    => /\ loaded.status = "ok"
       /\ \A r \in AdapterParamNames :
             /\ loaded.params[0][r] = Key(OrdinalPrefix(0), r)
             /\ loaded.params[2][r] = Key(OrdinalPrefix(2), r)
             /\ loaded.params[1][r] = Fresh

\* C5 (amended): the adapter at ordinal i is handed exactly the entries whose
\* key is `ip_adapter.`, the 3-digit zero-padded i, a dot and a name, under
\* that name, and no others; the load is strict, so construction succeeds
\* exactly when the bundle names every parameter of the projection and of
\* every adapter and no other name under their prefixes, and then every
\* adapter holds the tensors of its own keys; with keys of the ordinals 0 and
\* 2 only, construction fails.
C5_Amended ==
    loaded.status # "no" =>
        /\ \A i \in Ordinals :
              i < loaded.reached =>
                 loaded.handed[i] = {<<NameOf(k), k>> : k \in {x \in weights : KeyOfOrdinal(x, i)}}
        /\ loaded.status = "ok" <=> Complete(weights)
        /\ loaded.status = "ok" =>
              \A i \in Ordinals : \A r \in AdapterParamNames :
                  /\ loaded.params[i][r] \in weights
                  /\ KeyOfOrdinal(loaded.params[i][r], i)
                  /\ NameOf(loaded.params[i][r]) = r
        /\ Only000And002(weights) => loaded.status = "failed"

\* C5 witness: a construction that succeeded with a bundle that also holds
\* keys of an unknown prefix and of an ordinal written in another width,
\* which went to no adapter.
C5_Witness ==
    /\ loaded.status = "ok"
    /\ <<"l", "o", "r", "a", ".", "k">> \in weights
    /\ Key(IP_ADAPTER, <<"0", "0", "0", "1", ".", "k">>) \in weights
    /\ Key(IP_ADAPTER, <<"1", ".", "k">>) \in weights
    /\ loaded.params[1][<<"k">>] = Key(IP_ADAPTER, <<"0", "0", "1", ".", "k">>)

====
